---- MODULE Spec2Model ----
(***************************************************************************)
(* Random-walk generators of multigraffity (src/src/walkers.py):           *)
(* RandomWalker, BiasedRandomWalker, MultiRandomWalker and                 *)
(* MultiRandomWalkerWithHops, their constructors, do_walk and do_walks.    *)
(*                                                                         *)
(* A graph is the networkx adjacency structure: an ordered node list and,  *)
(* per node, the ordered list of its unique neighbours, each with the      *)
(* ordered list of parallel edges (key, weight) leading to it.             *)
(* Python's None is the empty tuple <<>>, a present value v is <<v>>.      *)
(* Reals 1/p, 1/q are exact fractions <<numerator, denominator>>.          *)
(***************************************************************************)
EXTENDS Integers, Sequences, FiniteSets, TLC

VARIABLES pc, args, error, self, graph, walks, runs,
          node_i, rep, walk_from_node, calls,
          seed, walk, it, previous_node, previous_node_neighbors,
          prev_key, drawn

vars == <<pc, args, error, self, graph, walks, runs,
          node_i, rep, walk_from_node, calls,
          seed, walk, it, previous_node, previous_node_neighbors,
          prev_key, drawn>>

(* ------------------------------ bounds --------------------------------- *)
MaxWalkLength == 3
MaxWalkNumber == 2
MaxRuns == 2
MaxCorpus == 4

PValues == {-1, 0, 2}
QValues == {0, 1, 3}
HopRates == {-1, 0, 1, 2}

(* ------------------------------ values --------------------------------- *)
None == <<>>
Some(v) == <<v>>

E(k, w) == [key |-> k, weight |-> w]
Nb(n, es) == [to |-> n, edges |-> es]

\* fully connected triangle {0,1,2}, unit weights
Triangle ==
  [nodes |-> <<0, 1, 2>>,
   adj |-> (0 :> <<Nb(1, <<E("a", 1)>>), Nb(2, <<E("a", 1)>>)>>) @@
           (1 :> <<Nb(0, <<E("a", 1)>>), Nb(2, <<E("a", 1)>>)>>) @@
           (2 :> <<Nb(0, <<E("a", 1)>>), Nb(1, <<E("a", 1)>>)>>)]

\* two nodes, no edges
Isolated ==
  [nodes |-> <<5, 10>>,
   adj |-> (5 :> <<>>) @@ (10 :> <<>>)]

\* directed path 0 -> 1 -> 2, node 2 is a dead end
DeadEnd ==
  [nodes |-> <<0, 1, 2>>,
   adj |-> (0 :> <<Nb(1, <<E("a", 1)>>)>>) @@
           (1 :> <<Nb(2, <<E("b", 1)>>)>>) @@
           (2 :> <<>>)]

\* undirected multigraph: 0=1 by two parallel edges, 0-2 of weight 0, 1-2
Parallel ==
  [nodes |-> <<0, 1, 2>>,
   adj |-> (0 :> <<Nb(1, <<E("a", 2), E("b", 1)>>), Nb(2, <<E("a", 0)>>)>>) @@
           (1 :> <<Nb(0, <<E("a", 2), E("b", 1)>>), Nb(2, <<E("b", 3)>>)>>) @@
           (2 :> <<Nb(0, <<E("a", 0)>>), Nb(1, <<E("b", 3)>>)>>)]

\* undirected multigraph with a self-loop on 0 and two parallel edges 0=1
SelfLoop ==
  [nodes |-> <<0, 1>>,
   adj |-> (0 :> <<Nb(0, <<E("a", 1)>>), Nb(1, <<E("a", 1), E("b", 2)>>)>>) @@
           (1 :> <<Nb(0, <<E("a", 1), E("b", 2)>>)>>)]

\* every edge has weight 0
ZeroWeights ==
  [nodes |-> <<3, 4>>,
   adj |-> (3 :> <<Nb(4, <<E("a", 0), E("b", 0)>>)>>) @@
           (4 :> <<Nb(3, <<E("a", 0), E("b", 0)>>)>>)]

NoNodes == [nodes |-> <<>>, adj |-> <<>>]

EdgeKeys == {"a", "b"}

Graphs == {Triangle, Isolated, DeadEnd, Parallel, SelfLoop, ZeroWeights, NoNodes}

Range(s) == {s[i] : i \in 1..Len(s)}

\* str(w) of a non-negative int
Digit == <<"0", "1", "2", "3", "4", "5", "6", "7", "8", "9">>
RECURSIVE Str(_)
Str(n) == IF n < 10 THEN Digit[n + 1] ELSE Str(n \div 10) \o Digit[(n % 10) + 1]

\* [str(w) for w in walk]
StrWalk(w) == [i \in 1..Len(w) |-> Str(w[i])]

\* list(graph.neighbors(n))
Neighbors(g, n) == [i \in 1..Len(g.adj[n]) |-> g.adj[n][i].to]

\* graph[u][v].items(), u -> v being the i-th adjacency entry of u
ParallelEdges(g, u, i) == g.adj[u][i].edges

RECURSIVE SumSeq(_)
SumSeq(s) == IF Len(s) = 0 THEN 0 ELSE s[1] + SumSeq(Tail(s))

(* ---------------------------- constructors ----------------------------- *)
NoWalker == [class |-> "None"]

RandomWalkerInit(L, K) ==
  /\ pc = "new"
  /\ args' = [class |-> "RandomWalker", walk_length |-> L, walk_number |-> K]
  /\ self' = [class |-> "RandomWalker", walk_length |-> L, walk_number |-> K]
  /\ pc' = "idle"
  /\ UNCHANGED <<error, graph, walks, runs, node_i, rep, walk_from_node, calls,
                 seed, walk, it, previous_node, previous_node_neighbors,
                 prev_key, drawn>>

\* try: 1/p except ZeroDivisionError: raise ValueError
Raises1Over(x) == x = 0

BiasedRandomWalkerInit(L, K, p, q) ==
  /\ pc = "new"
  /\ args' = [class |-> "BiasedRandomWalker", walk_length |-> L,
              walk_number |-> K, p |-> p, q |-> q]
  /\ IF Raises1Over(p) \/ Raises1Over(q)
       THEN /\ error' = "ValueError"
            /\ pc' = "failed"
            /\ self' = self
       ELSE /\ self' = [class |-> "BiasedRandomWalker", walk_length |-> L,
                        walk_number |-> K, p |-> p, q |-> q]
            /\ pc' = "idle"
            /\ error' = error
  /\ UNCHANGED <<graph, walks, runs, node_i, rep, walk_from_node, calls,
                 seed, walk, it, previous_node, previous_node_neighbors,
                 prev_key, drawn>>

MultiRandomWalkerInit(L, K) ==
  /\ pc = "new"
  /\ args' = [class |-> "MultiRandomWalker", walk_length |-> L, walk_number |-> K]
  /\ self' = [class |-> "MultiRandomWalker", walk_length |-> L, walk_number |-> K]
  /\ pc' = "idle"
  /\ UNCHANGED <<error, graph, walks, runs, node_i, rep, walk_from_node, calls,
                 seed, walk, it, previous_node, previous_node_neighbors,
                 prev_key, drawn>>

\* a test that lets hop_rate = 0 through
HopRateRejectedBelowZero(h) == h < 0

\* if hop_rate <= 0: raise ValueError
HopRateRejected(h) == h <= 0

MultiRandomWalkerWithHopsInit(L, K, h) ==
  /\ pc = "new"
  /\ args' = [class |-> "MultiRandomWalkerWithHops", walk_length |-> L,
              walk_number |-> K, hop_rate |-> h]
  /\ IF HopRateRejected(h)
       THEN /\ error' = "ValueError"
            /\ pc' = "failed"
            /\ self' = self
       ELSE /\ self' = [class |-> "MultiRandomWalkerWithHops", walk_length |-> L,
                        walk_number |-> K, hop_rate |-> h]
            /\ pc' = "idle"
            /\ error' = error
  /\ UNCHANGED <<graph, walks, runs, node_i, rep, walk_from_node, calls,
                 seed, walk, it, previous_node, previous_node_neighbors,
                 prev_key, drawn>>

(* ------------------------- weighted selection -------------------------- *)
\* RandomWalker.do_walk: random.sample(nebs, 1) can return any position
SamplePicks(nebs) == 1..Len(nebs)

\* the weight vector with the two overrides applied in the other order
ProbabilityReturnLast(nebs, prev, prevNebs, p, q) ==
  LET default == [i \in 1..Len(nebs) |-> <<1, q>>]
      common == [i \in 1..Len(nebs) |->
                   IF nebs[i] \in Range(prevNebs) THEN <<1, 1>> ELSE default[i]]
  IN  [i \in 1..Len(nebs) |->
         IF Some(nebs[i]) = prev THEN <<1, p>> ELSE common[i]]

\* BiasedRandomWalker.do_walk: the unnormalised weight vector, built as
\* default 1/q, then the return override 1/p, then the common-neighbour
\* override 1
Probability(nebs, prev, prevNebs, p, q) ==
  LET default == [i \in 1..Len(nebs) |-> <<1, q>>]
      returned == [i \in 1..Len(nebs) |->
                     IF Some(nebs[i]) = prev THEN <<1, p>> ELSE default[i]]
  IN  [i \in 1..Len(nebs) |->
         IF nebs[i] \in Range(prevNebs) THEN <<1, 1>> ELSE returned[i]]

\* a weight of the vector times (p*q)^2, an integer of the same sign
Scaled(f, p, q) == (f[1] * (p * q) * (p * q)) \div f[2]

ScaledSum(prob, p, q) == SumSeq([i \in 1..Len(prob) |-> Scaled(prob[i], p, q)])

\* np.random.choice(a, 1, p=probability/sum(probability)) raises ValueError
\* when a is empty, when the sum is zero (NaN) or when a normalised entry
\* is negative
NpChoiceRaises(prob, p, q) ==
  \/ Len(prob) = 0
  \/ ScaledSum(prob, p, q) = 0
  \/ \E i \in 1..Len(prob) : Scaled(prob[i], p, q) * ScaledSum(prob, p, q) < 0

NpChoicePicks(prob, p, q) ==
  {i \in 1..Len(prob) : Scaled(prob[i], p, q) * ScaledSum(prob, p, q) > 0}

\* one entry per neighbour, for its first parallel edge only
RECURSIVE MultiCandidatesFromFirstEdge(_, _, _)
MultiCandidatesFromFirstEdge(g, u, i) ==
  IF i > Len(g.adj[u]) THEN <<>>
  ELSE <<[neigh |-> g.adj[u][i].to,
          weight |-> ParallelEdges(g, u, i)[1].weight]>>
       \o MultiCandidatesFromFirstEdge(g, u, i + 1)

\* MultiRandomWalker.do_walk: one (neigh, weight) entry per parallel edge,
\* neighbours in adjacency order, from the i-th neighbour on
RECURSIVE MultiCandidatesFrom(_, _, _)
MultiCandidatesFrom(g, u, i) ==
  IF i > Len(g.adj[u]) THEN <<>>
  ELSE [k \in 1..Len(ParallelEdges(g, u, i)) |->
          [neigh |-> g.adj[u][i].to,
           weight |-> ParallelEdges(g, u, i)[k].weight]]
       \o MultiCandidatesFrom(g, u, i + 1)

MultiCandidates(g, u) == MultiCandidatesFrom(g, u, 1)

\* hop_rate applied to the edges of the previous key instead
FactorSameKey(pk, key, h) == IF pk # None /\ pk = Some(key) THEN h ELSE 1

\* MultiRandomWalkerWithHops.do_walk: hop_rate if the previous key exists
\* and differs from the edge's key, else 1
Factor(pk, key, h) == IF pk # None /\ pk # Some(key) THEN h ELSE 1

\* one entry per neighbour, for its first parallel edge only
RECURSIVE HopCandidatesFromFirstEdge(_, _, _, _, _)
HopCandidatesFromFirstEdge(g, u, pk, h, i) ==
  IF i > Len(g.adj[u]) THEN <<>>
  ELSE <<[neigh |-> g.adj[u][i].to,
          key |-> ParallelEdges(g, u, i)[1].key,
          weight |-> ParallelEdges(g, u, i)[1].weight
                       * Factor(pk, ParallelEdges(g, u, i)[1].key, h)]>>
       \o HopCandidatesFromFirstEdge(g, u, pk, h, i + 1)

\* one ((neigh, key), weight * factor) entry per parallel edge
RECURSIVE HopCandidatesFrom(_, _, _, _, _)
HopCandidatesFrom(g, u, pk, h, i) ==
  IF i > Len(g.adj[u]) THEN <<>>
  ELSE [k \in 1..Len(ParallelEdges(g, u, i)) |->
          [neigh |-> g.adj[u][i].to,
           key |-> ParallelEdges(g, u, i)[k].key,
           weight |-> ParallelEdges(g, u, i)[k].weight
                        * Factor(pk, ParallelEdges(g, u, i)[k].key, h)]]
       \o HopCandidatesFrom(g, u, pk, h, i + 1)

HopCandidates(g, u, pk, h) == HopCandidatesFrom(g, u, pk, h, 1)

Weights(cands) == [i \in 1..Len(cands) |-> cands[i].weight]

\* random.choices(population, weights, k=1) raises on an empty population
\* and, since Python 3.9, ValueError on a total of zero
ChoicesMayRaise(weights) == Len(weights) = 0 \/ SumSeq(weights) <= 0

\* the positions random.choices can return: bisect(cum_weights,
\* random() * total, 0, n - 1) lands on an entry of positive weight; with a
\* total of zero an interpreter older than 3.9 returns the last entry
ChoicesPicks(weights) ==
  IF SumSeq(weights) > 0
    THEN {i \in 1..Len(weights) : weights[i] > 0}
    ELSE {i \in 1..Len(weights) : i = Len(weights)}

(* ------------------------------ do_walks ------------------------------- *)
\* the seed taken for the current node
CurrentNodeFirst(w) == w[1]

\* walk[-1]
CurrentNode(w) == w[Len(w)]

\* a loop of walk_length iterations
InLoopOffByOne(i, L) == i < L

\* for _ in range(self.walk_length - 1): the it-th iteration runs
InLoop(i, L) == i < L - 1

\* the emptiness test left out
HasNeighborsAlways(nebs) == TRUE

\* if len(nebs) > 0
HasNeighbors(nebs) == Len(nebs) > 0

\* do_walks that keeps the corpus of the previous run
DoWalksBeginKeep(g) ==
  /\ pc \in {"idle", "done", "raised"}
  /\ runs < MaxRuns
  /\ Len(g.nodes) * self.walk_number <= MaxCorpus
  /\ walks' = walks
  /\ graph' = g
  /\ node_i' = 1
  /\ rep' = 0
  /\ calls' = <<>>
  /\ runs' = runs + 1
  /\ error' = "None"
  /\ pc' = "loop"
  /\ UNCHANGED <<args, self, walk_from_node, seed, walk, it, previous_node,
                 previous_node_neighbors, prev_key, drawn>>

\* self.walks = []; self.graph = graph; enter the loop over graph.nodes()
DoWalksBegin(g) ==
  /\ pc \in {"idle", "done", "raised"}
  /\ runs < MaxRuns
  /\ Len(g.nodes) * self.walk_number <= MaxCorpus
  /\ walks' = <<>>
  /\ graph' = g
  /\ node_i' = 1
  /\ rep' = 0
  /\ calls' = <<>>
  /\ runs' = runs + 1
  /\ error' = "None"
  /\ pc' = "loop"
  /\ UNCHANGED <<args, self, walk_from_node, seed, walk, it, previous_node,
                 previous_node_neighbors, prev_key, drawn>>

\* walk_from_node = self.do_walk(node): entry of do_walk, its locals set
DoWalkCall ==
  /\ pc = "loop"
  /\ node_i <= Len(graph.nodes)
  /\ seed' = graph.nodes[node_i]
  /\ walk' = <<graph.nodes[node_i]>>
  /\ it' = 0
  /\ previous_node' = None
  /\ previous_node_neighbors' = <<>>
  /\ prev_key' = None
  /\ drawn' = None
  /\ pc' = "walk"
  /\ UNCHANGED <<args, error, self, graph, walks, runs, node_i, rep,
                 walk_from_node, calls>>

\* one iteration of RandomWalker.do_walk's loop
RandomWalkerStep ==
  /\ pc = "walk"
  /\ self.class = "RandomWalker"
  /\ InLoop(it, self.walk_length)
  /\ LET nebs == Neighbors(graph, CurrentNode(walk))
     IN  IF HasNeighbors(nebs)
           THEN \E i \in SamplePicks(nebs) : walk' = walk \o <<nebs[i]>>
           ELSE walk' = walk
  /\ it' = it + 1
  /\ UNCHANGED <<pc, args, error, self, graph, walks, runs, node_i, rep,
                 walk_from_node, calls, seed, previous_node,
                 previous_node_neighbors, prev_key, drawn>>

\* one iteration of BiasedRandomWalker.do_walk's loop
BiasedRandomWalkerStep ==
  /\ pc = "walk"
  /\ self.class = "BiasedRandomWalker"
  /\ InLoop(it, self.walk_length)
  /\ LET current_node == CurrentNode(walk)
         current_node_neighbors == Neighbors(graph, current_node)
         probability == Probability(current_node_neighbors, previous_node,
                                    previous_node_neighbors, self.p, self.q)
     IN  IF NpChoiceRaises(probability, self.p, self.q)
           THEN /\ error' = "ValueError"
                /\ pc' = "raised"
                /\ UNCHANGED <<walk, it, previous_node, previous_node_neighbors>>
           ELSE /\ \E i \in NpChoicePicks(probability, self.p, self.q) :
                     walk' = Append(walk, current_node_neighbors[i])
                /\ previous_node_neighbors' = current_node_neighbors
                /\ previous_node' = Some(current_node)
                /\ it' = it + 1
                /\ UNCHANGED <<pc, error>>
  /\ UNCHANGED <<args, self, graph, walks, runs, node_i, rep,
                 walk_from_node, calls, seed, prev_key, drawn>>

\* one iteration of MultiRandomWalker.do_walk's loop
MultiRandomWalkerStep ==
  /\ pc = "walk"
  /\ self.class = "MultiRandomWalker"
  /\ InLoop(it, self.walk_length)
  /\ LET unique_neighbors == Neighbors(graph, CurrentNode(walk))
         cands == MultiCandidates(graph, CurrentNode(walk))
     IN  IF HasNeighbors(unique_neighbors)
           THEN \/ /\ ChoicesMayRaise(Weights(cands))
                   /\ error' = "ValueError"
                   /\ pc' = "raised"
                   /\ UNCHANGED <<walk, it>>
                \/ /\ \E i \in ChoicesPicks(Weights(cands)) :
                        walk' = walk \o <<cands[i].neigh>>
                   /\ it' = it + 1
                   /\ UNCHANGED <<pc, error>>
           ELSE /\ it' = it + 1
                /\ UNCHANGED <<pc, error, walk>>
  /\ UNCHANGED <<args, self, graph, walks, runs, node_i, rep,
                 walk_from_node, calls, seed, previous_node,
                 previous_node_neighbors, prev_key, drawn>>

\* one iteration of MultiRandomWalkerWithHops.do_walk's loop
MultiRandomWalkerWithHopsStep ==
  /\ pc = "walk"
  /\ self.class = "MultiRandomWalkerWithHops"
  /\ InLoop(it, self.walk_length)
  /\ LET unique_neighbors == Neighbors(graph, CurrentNode(walk))
         cands == HopCandidates(graph, CurrentNode(walk), prev_key, self.hop_rate)
     IN  IF HasNeighbors(unique_neighbors)
           THEN \/ /\ ChoicesMayRaise(Weights(cands))
                   /\ error' = "ValueError"
                   /\ pc' = "raised"
                   /\ UNCHANGED <<walk, it, prev_key, drawn>>
                \/ /\ \E i \in ChoicesPicks(Weights(cands)) :
                        /\ drawn' = Some(<<cands[i].neigh, cands[i].key>>)
                        /\ walk' = walk \o <<cands[i].neigh>>
                        /\ prev_key' = Some(cands[i].key)
                   /\ it' = it + 1
                   /\ UNCHANGED <<pc, error>>
           ELSE /\ it' = it + 1
                /\ UNCHANGED <<pc, error, walk, prev_key, drawn>>
  /\ UNCHANGED <<args, self, graph, walks, runs, node_i, rep,
                 walk_from_node, calls, seed, previous_node,
                 previous_node_neighbors>>

\* walk = [str(w) for w in walk]; return walk
DoWalkReturn ==
  /\ pc = "walk"
  /\ ~InLoop(it, self.walk_length)
  /\ walk_from_node' = StrWalk(walk)
  /\ calls' = Append(calls, [i |-> node_i - 1, j |-> rep, seed |-> seed,
                             result |-> StrWalk(walk)])
  /\ pc' = "returned"
  /\ UNCHANGED <<args, error, self, graph, walks, runs, node_i, rep,
                 seed, walk, it, previous_node, previous_node_neighbors,
                 prev_key, drawn>>

\* self.walks.append(walk_from_node); next repetition or next node
DoWalksAppend ==
  /\ pc = "returned"
  /\ walks' = Append(walks, walk_from_node)
  /\ IF rep + 1 < self.walk_number
       THEN rep' = rep + 1 /\ node_i' = node_i
       ELSE rep' = 0 /\ node_i' = node_i + 1
  /\ pc' = "loop"
  /\ UNCHANGED <<args, error, self, graph, runs, walk_from_node, calls,
                 seed, walk, it, previous_node, previous_node_neighbors,
                 prev_key, drawn>>

\* the loop over graph.nodes() is exhausted: do_walks returns
DoWalksEnd ==
  /\ pc = "loop"
  /\ node_i > Len(graph.nodes)
  /\ pc' = "done"
  /\ UNCHANGED <<args, error, self, graph, walks, runs, node_i, rep,
                 walk_from_node, calls, seed, walk, it, previous_node,
                 previous_node_neighbors, prev_key, drawn>>

(* --------------------------- specification ----------------------------- *)
Init ==
  /\ pc = "new"
  /\ args = NoWalker
  /\ error = "None"
  /\ self = NoWalker
  /\ graph = NoNodes
  /\ walks = <<>>
  /\ runs = 0
  /\ node_i = 1
  /\ rep = 0
  /\ walk_from_node = <<>>
  /\ calls = <<>>
  /\ seed = None
  /\ walk = <<>>
  /\ it = 0
  /\ previous_node = None
  /\ previous_node_neighbors = <<>>
  /\ prev_key = None
  /\ drawn = None

Next ==
  \/ \E L \in 1..MaxWalkLength, K \in 1..MaxWalkNumber : RandomWalkerInit(L, K)
  \/ \E L \in 1..MaxWalkLength, K \in 1..MaxWalkNumber, p \in PValues, q \in QValues :
       BiasedRandomWalkerInit(L, K, p, q)
  \/ \E L \in 1..MaxWalkLength, K \in 1..MaxWalkNumber : MultiRandomWalkerInit(L, K)
  \/ \E L \in 1..MaxWalkLength, K \in 1..MaxWalkNumber, h \in HopRates :
       MultiRandomWalkerWithHopsInit(L, K, h)
  \/ \E g \in Graphs : DoWalksBegin(g)
  \/ DoWalkCall
  \/ RandomWalkerStep
  \/ BiasedRandomWalkerStep
  \/ MultiRandomWalkerStep
  \/ MultiRandomWalkerWithHopsStep
  \/ DoWalkReturn
  \/ DoWalksAppend
  \/ DoWalksEnd

Spec == Init /\ [][Next]_vars

(* ------------------------------- claims -------------------------------- *)
Hops == "MultiRandomWalkerWithHops"
FirstOrder == {"RandomWalker", "MultiRandomWalker", Hops}

ZeroNeighborSeed ==
  (/\ pc \in {"walk", "returned", "raised"}
   /\ self.class \in FirstOrder
   /\ Len(Neighbors(graph, seed)) = 0) =>
    /\ pc # "raised"
    /\ walk = <<seed>>
    /\ pc = "returned" => walk_from_node = <<Str(seed)>>

\* the hop walker returned from the isolated node 10 after two idle iterations
ZeroNeighborSeedWitness ==
  /\ pc = "returned"
  /\ self.class = Hops
  /\ graph = Isolated
  /\ seed = 10
  /\ it = 2
  /\ walk_from_node = <<"10">>

\* C4: BiasedRandomWalker(p, q) with p = 0 or q = 0 and
\* MultiRandomWalkerWithHops(hop_rate) with hop_rate <= 0 raise ValueError
\* and leave no walker, so no walk is made with such parameters; with other
\* parameters the constructor succeeds.
ConstructorValidation ==
  /\ args.class = "BiasedRandomWalker" =>
       IF args.p = 0 \/ args.q = 0
         THEN pc = "failed" /\ error = "ValueError" /\ self = NoWalker
         ELSE pc # "failed" /\ self = args
  /\ args.class = Hops =>
       IF args.hop_rate <= 0
         THEN pc = "failed" /\ error = "ValueError" /\ self = NoWalker
         ELSE pc # "failed" /\ self = args
  /\ pc \in {"loop", "walk", "returned", "done", "raised"} =>
       /\ self.class = "BiasedRandomWalker" => self.p # 0 /\ self.q # 0
       /\ self.class = Hops => self.hop_rate > 0

\* the hop walker's constructor refused hop_rate = 0
ConstructorValidationWitness ==
  /\ pc = "failed"
  /\ args.class = Hops
  /\ args.hop_rate = 0
  /\ error = "ValueError"

\* C5: BiasedRandomWalker.do_walk raises nothing at a node without
\* neighbours (the walk is returned as built so far).
BiasedGracefulOnZeroNeighbors ==
  ~(/\ pc = "raised"
    /\ self.class = "BiasedRandomWalker"
    /\ Len(Neighbors(graph, CurrentNode(walk))) = 0)

\* the sum of the weights of the candidate entries that lead to x
RECURSIVE NeighborTotal(_, _)
NeighborTotal(cands, x) ==
  IF Len(cands) = 0 THEN 0
  ELSE (IF cands[1].neigh = x THEN cands[1].weight ELSE 0)
       + NeighborTotal(Tail(cands), x)

\* the neighbours a draw over the candidate list can land on
Landing(cands) == {cands[i].neigh : i \in ChoicesPicks(Weights(cands))}

\* the walks MultiRandomWalker.do_walk can build from the walk w in n more
\* iterations of its loop
RECURSIVE MultiWalksFrom(_, _, _)
MultiWalksFrom(g, w, n) ==
  IF n = 0 THEN {w}
  ELSE LET cands == MultiCandidates(g, CurrentNode(w))
       IN  IF HasNeighbors(Neighbors(g, CurrentNode(w)))
             THEN UNION {MultiWalksFrom(g, w \o <<cands[i].neigh>>, n - 1) :
                           i \in ChoicesPicks(Weights(cands))}
             ELSE MultiWalksFrom(g, w, n - 1)

\* the walks MultiRandomWalkerWithHops.do_walk can build from the walk w,
\* reached with previous key pk, in n more iterations of its loop
RECURSIVE HopWalksFrom(_, _, _, _, _)
HopWalksFrom(g, w, pk, h, n) ==
  IF n = 0 THEN {w}
  ELSE LET cands == HopCandidates(g, CurrentNode(w), pk, h)
       IN  IF HasNeighbors(Neighbors(g, CurrentNode(w)))
             THEN UNION {HopWalksFrom(g, w \o <<cands[i].neigh>>,
                                      Some(cands[i].key), h, n - 1) :
                           i \in ChoicesPicks(Weights(cands))}
             ELSE HopWalksFrom(g, w, pk, h, n - 1)

\* no previous key, each edge key of the graphs, and a key of no edge
PreviousKeys == {None} \cup {Some(k) : k \in EdgeKeys \cup {"c"}}

\* C6: with hop_rate = 1 the hop walker weighs every neighbour of every
\* node, whatever the previous key, as MultiRandomWalker does, and can land
\* on the same neighbours (or fail in the same cases); from every seed the
\* two walkers can build the same walks.
HopNeutrality ==
  (/\ pc \in {"loop", "walk", "returned", "done"}
   /\ self.class = Hops
   /\ self.hop_rate = 1) =>
    \A n \in 1..Len(graph.nodes) :
      LET u == graph.nodes[n]
          multi == MultiCandidates(graph, u)
      IN  \A pk \in PreviousKeys :
            LET hop == HopCandidates(graph, u, pk, self.hop_rate)
            IN  /\ \A x \in Range(Neighbors(graph, u)) :
                     NeighborTotal(hop, x) = NeighborTotal(multi, x)
                /\ Landing(hop) = Landing(multi)
                /\ ChoicesMayRaise(Weights(hop)) = ChoicesMayRaise(Weights(multi))
                /\ HopWalksFrom(graph, <<u>>, pk, self.hop_rate, self.walk_length - 1)
                     = MultiWalksFrom(graph, <<u>>, self.walk_length - 1)

\* the neutral hop walker about to step from node 0 of the multigraph,
\* having arrived by an edge of key "b"
HopNeutralityWitness ==
  /\ pc = "walk"
  /\ self.class = Hops
  /\ self.hop_rate = 1
  /\ graph = Parallel
  /\ prev_key = Some("b")
  /\ CurrentNode(walk) = 0
  /\ InLoop(it, self.walk_length)

\* the parallel edges from u to its i-th neighbour
EdgeCount(g, u, i) == Len(g.adj[u][i].edges)

EdgeWeightSum(g, u, i) ==
  SumSeq([k \in 1..EdgeCount(g, u, i) |-> g.adj[u][i].edges[k].weight])

\* C7: at every step of MultiRandomWalker.do_walk the candidate list holds
\* one entry per parallel edge from the current node, so a neighbour's
\* weight is the sum of the weights of its parallel edges; a neighbour of
\* total weight 0 is never moved to while another neighbour has a positive
\* total.
MultiCandidateList ==
  (pc = "walk" /\ self.class = "MultiRandomWalker") =>
    /\ LET u == CurrentNode(walk)
           cands == MultiCandidates(graph, u)
       IN  \A i \in 1..Len(graph.adj[u]) :
             LET x == graph.adj[u][i].to
             IN  /\ Cardinality({c \in 1..Len(cands) : cands[c].neigh = x})
                      = EdgeCount(graph, u, i)
                 /\ NeighborTotal(cands, x) = EdgeWeightSum(graph, u, i)
    /\ \A s \in 1..(Len(walk) - 1) :
         LET cands == MultiCandidates(graph, walk[s])
         IN  (\E y \in Range(Neighbors(graph, walk[s])) : NeighborTotal(cands, y) > 0)
               => NeighborTotal(cands, walk[s + 1]) > 0

\* MultiRandomWalker left node 0 of the multigraph, whose neighbour 2 has
\* total weight 0 and whose neighbour 1 has two parallel edges
MultiCandidateListWitness ==
  /\ pc = "walk"
  /\ self.class = "MultiRandomWalker"
  /\ graph = Parallel
  /\ Len(walk) >= 2
  /\ walk[1] = 0
  /\ walk[2] = 1

\* C8: at every step of BiasedRandomWalker.do_walk a neighbour x of the
\* current node weighs 1 if x is a neighbour of the previous node, else 1/p
\* if x is the previous node, else 1/q; with no previous node every weight
\* is 1/q; after a step the previous node is the node just left and the
\* previous neighbours are that node's neighbours.
BiasedWeights ==
  (pc = "walk" /\ self.class = "BiasedRandomWalker") =>
    LET nebs == Neighbors(graph, CurrentNode(walk))
        probability == Probability(nebs, previous_node,
                                   previous_node_neighbors, self.p, self.q)
    IN  /\ Len(probability) = Len(nebs)
        /\ \A i \in 1..Len(nebs) :
             probability[i] =
               IF \E n \in 1..Len(previous_node_neighbors) :
                    previous_node_neighbors[n] = nebs[i]
                 THEN <<1, 1>>
                 ELSE IF previous_node = Some(nebs[i])
                        THEN <<1, self.p>>
                        ELSE <<1, self.q>>
        /\ Len(walk) = 1 =>
             /\ previous_node = None
             /\ previous_node_neighbors = <<>>
             /\ \A i \in 1..Len(nebs) : probability[i] = <<1, self.q>>
        /\ Len(walk) > 1 =>
             /\ previous_node = Some(walk[Len(walk) - 1])
             /\ previous_node_neighbors = Neighbors(graph, walk[Len(walk) - 1])

\* the biased walker took the self-loop of node 0 and is about to step
\* again: node 0 is the previous node and one of its own neighbours
BiasedWeightsWitness ==
  /\ pc = "walk"
  /\ self.class = "BiasedRandomWalker"
  /\ graph = SelfLoop
  /\ walk = <<0, 0>>
  /\ InLoop(it, self.walk_length)

\* C9: in MultiRandomWalkerWithHops.do_walk the previous key is None when a
\* call starts and, after a step that extends the walk, the key of the edge
\* just drawn; a candidate edge weighs weight * hop_rate exactly when the
\* previous key is not None and differs from the edge's key, else weight, so
\* before the first move every candidate keeps its raw weight.
HopKeyTracking ==
  [][self.class = Hops =>
      /\ (pc = "loop" /\ pc' = "walk") => prev_key' = None
      /\ (pc' = "walk" /\ Len(walk') = 1) => prev_key' = None
      /\ (pc = "walk" /\ pc' = "walk" /\ walk' = walk) => prev_key' = prev_key
      /\ (pc = "walk" /\ Len(walk') = Len(walk) + 1) =>
           \E i \in 1..Len(graph.adj[CurrentNode(walk)]) :
             \E e \in 1..EdgeCount(graph, CurrentNode(walk), i) :
               LET nb == graph.adj[CurrentNode(walk)][i]
               IN  /\ CurrentNode(walk') = nb.to
                   /\ drawn' = Some(<<nb.to, nb.edges[e].key>>)
                   /\ prev_key' = Some(nb.edges[e].key)
      /\ pc = "walk" =>
           LET u == CurrentNode(walk)
               cands == HopCandidates(graph, u, prev_key, self.hop_rate)
           IN  \A i \in 1..Len(graph.adj[u]) :
                 \A e \in 1..EdgeCount(graph, u, i) :
                   LET edge == graph.adj[u][i].edges[e]
                       hopped == prev_key # None /\ prev_key # Some(edge.key)
                   IN  \E c \in 1..Len(cands) :
                         /\ cands[c].neigh = graph.adj[u][i].to
                         /\ cands[c].key = edge.key
                         /\ hopped => cands[c].weight = edge.weight * self.hop_rate
                         /\ ~hopped => cands[c].weight = edge.weight
    ]_vars

\* the hop walker with hop_rate 2 reached node 0 of the multigraph by an
\* edge of key "b" and is about to step: the "a" edges are scaled
HopKeyTrackingWitness ==
  /\ pc = "walk"
  /\ self.class = Hops
  /\ self.hop_rate = 2
  /\ graph = Parallel
  /\ Len(walk) = 2
  /\ CurrentNode(walk) = 0
  /\ prev_key = Some("b")
  /\ drawn = Some(<<0, "b">>)
  /\ InLoop(it, self.walk_length)

\* w is a path of g, read back from the string labels
IsPath(g, w) ==
  \A s \in 1..(Len(w) - 1) :
    \E n \in 1..Len(g.nodes) :
      /\ Str(g.nodes[n]) = w[s]
      /\ \E i \in 1..Len(g.adj[g.nodes[n]]) :
           /\ Str(g.adj[g.nodes[n]][i].to) = w[s + 1]
           /\ Len(g.adj[g.nodes[n]][i].edges) >= 1

\* C10: every walk of the corpus and every walk returned is a path of the
\* graph (each element is a neighbour of the one before it), and the graph
\* bound by do_walks stays as it is until do_walks is called again.
WalksArePaths ==
  /\ [](/\ \A k \in 1..Len(walks) : IsPath(graph, walks[k])
        /\ pc = "returned" => IsPath(graph, walk_from_node))
  /\ [][(pc \in {"loop", "walk", "returned"}) => (graph' = graph)]_vars

\* a finished corpus of the hop walker with a walk of three nodes
WalksArePathsWitness ==
  /\ pc = "done"
  /\ self.class = Hops
  /\ graph = Parallel
  /\ \E k \in 1..Len(walks) : Len(walks[k]) = 3 /\ walks[k][3] = "2"

====
